---------------------------- MODULE Spec2Model ----------------------------
(***************************************************************************)
(* Rigidify (sofagym/envs/Maze/rigidification.py): a deformable object is  *)
(* split into free and rigidified particles.  The scene the function       *)
(* mutates (source object, target node, the node it creates) is the state; *)
(* one invocation of Rigidify is one action.                               *)
(*                                                                         *)
(* Python values: a list is a sequence (Python index i is position i+1),   *)
(* an optional argument is a set with at most one element (None = {}), a   *)
(* dict is the sequence of its items in insertion order.                   *)
(***************************************************************************)
EXTENDS Integers, Sequences, FiniteSets

\* Bounds of the inputs that are enumerated.
MaxPoints == 3
MaxGroups == 2
MaxSelected == 2
MaxCalls == 2

VARIABLES
    positions,         \* sourceObject.container.position / sourceObject.dofs.position
    calls,             \* number of invocations of Rigidify so far
    args,              \* the arguments of the latest invocation
    raised,            \* the exception the latest invocation ended with ("" = it returned)
    msgs,              \* Sofa.msg_warning / Sofa.msg_error emitted by the latest invocation
    otherIndices,      \* the local otherIndices of the latest invocation (<<>> if not reached)
    initCount,         \* number of sourceObject.init() calls
    targetChildren,    \* names of the children added to targetObject, in order
    ero,               \* the node created by the latest addChild(name), {} before
    sourceComponents,  \* solver components still attached to sourceObject
    nbMappings,        \* SubsetMultiMapping objects added to the coupling node
    mapping,           \* the latest SubsetMultiMapping's indexPairs, {} before
    couplingParents    \* nodes the coupling node was added to as a child

vars == <<positions, calls, args, raised, msgs, otherIndices, initCount, targetChildren, ero,
          sourceComponents, nbMappings, mapping, couplingParents>>

\* What Rigidify can change in the scene.
scene == <<initCount, targetChildren, ero, sourceComponents, nbMappings, mapping,
           couplingParents>>

---------------------------------------------------------------------------
\* Python helpers

None == {}
Some(x) == {x}
The(opt) == CHOOSE x \in opt : TRUE

Range(s) == {s[i] : i \in DOMAIN s}

\* list[i] with Python's negative indices; IndexError outside -len..len-1
ValidIndex(list, i) == (0 - Len(list)) <= i /\ i < Len(list)
PyGet(list, i) == IF i >= 0 THEN list[i + 1] ELSE list[Len(list) + i + 1]

RECURSIVE Concat(_)
Concat(ss) == IF ss = <<>> THEN <<>> ELSE Head(ss) \o Concat(Tail(ss))

\* every ordering a set can be iterated in: the order of list(set) is that of the
\* hash table, not of the values (CPython 3.11: list(set(range(9)) - set(range(7)))
\* is [8, 7])
Orderings(S) ==
    {f \in [1..Cardinality(S) -> S] : \A i, j \in 1..Cardinality(S) : i # j => f[i] # f[j]}

\* dict: keys keep the position of their first insertion, values are overwritten
DictKeys(d) == {d[i].k : i \in DOMAIN d}
DictPut(d, key, val) ==
    IF key \in DictKeys(d)
    THEN [i \in DOMAIN d |-> IF d[i].k = key THEN [k |-> key, v |-> val] ELSE d[i]]
    ELSE Append(d, [k |-> key, v |-> val])

RECURSIVE DictUpdate(_, _)
DictUpdate(d, items) ==
    IF items = <<>> THEN d
    ELSE DictUpdate(DictPut(d, Head(items).k, Head(items).v), Tail(items))

---------------------------------------------------------------------------
\* The source object

\* the point cloud: n distinct points
Vec3(i) == <<i, 10 + i, 20 + 2 * i>>
PointCloud(n) == [i \in 1..n |-> Vec3(i - 1)]

AllComponents == {"solver", "integration", "LinearSolverConstraintCorrection"}
SourceName == "Source"

\* allIndices = list(sourceObject.container.points.value)
AllIndices(pos) == [i \in 1..Len(pos) |-> i - 1]

---------------------------------------------------------------------------
\* Rigidify, step by step

\* lines 54-60: the deprecated alias, then the default
ResolveFrames(groupIndices, frames, frameOrientation) ==
    LET f1 == IF frameOrientation # None THEN frameOrientation ELSE frames
    IN  IF f1 = None THEN [i \in 1..Len(groupIndices) |-> <<0, 0, 0>>] ELSE The(f1)

\* line 62 without the assert (python -O strips it)
SizeMatch_Stripped(groupIndices, frames) == TRUE

\* line 62
SizeMatch(groupIndices, frames) == Len(groupIndices) = Len(frames)

\* lines 64-65
ResolveName(name) == IF name = None THEN SourceName ELSE The(name)

\* lines 78-84: the points of the indices of ai that are in si, in ai's order
RECURSIVE mfilter(_, _, _)
mfilter(si, ai, pts) ==
    IF ai = <<>> THEN <<>>
    ELSE (IF Head(ai) \in Range(si) THEN <<PyGet(pts, Head(ai))>> ELSE <<>>)
         \o mfilter(si, Tail(ai), pts)

\* lines 97, 100: getBarycenter is neither defined nor imported in the module
\* (line 32 imports Vec3 and Quat only), so the call raises NameError.
getBarycenter(selectedPoints) == [raised |-> "NameError", value |-> <<>>]

\* lines 95-109: one frame
Frame(frame, selectedPoints) ==
    CASE Len(frame) = 3 ->
           LET b == getBarycenter(selectedPoints)
           IN  [raised |-> b.raised,
                rigid |-> [position |-> b.value,
                           orientation |-> [kind |-> "createFromEuler", v |-> frame]]]
      [] Len(frame) = 4 ->
           LET b == getBarycenter(selectedPoints)
           IN  [raised |-> b.raised,
                rigid |-> [position |-> b.value,
                           orientation |-> [kind |-> "quat", v |-> frame]]]
      [] Len(frame) = 6 ->
           [raised |-> "",
            rigid |-> [position |-> SubSeq(frame, 1, 3),
                       orientation |-> [kind |-> "createFromEuler", v |-> SubSeq(frame, 4, 6)]]]
      [] Len(frame) = 7 ->
           [raised |-> "",
            rigid |-> [position |-> SubSeq(frame, 1, 3),
                       orientation |-> [kind |-> "quat", v |-> SubSeq(frame, 4, 7)]]]
      [] OTHER ->
           [raised |-> "NotImplementedError",
            rigid |-> [position |-> <<>>, orientation |-> [kind |-> "", v |-> <<>>]]]

\* line 113
SelectedIndices(groupIndices) == Concat(groupIndices)

\* line 114 with len(groupIndices) for len(groupIndices[i])
RECURSIVE IndicesMap_NbGroups(_, _)
IndicesMap_NbGroups(groupIndices, i) ==
    IF i >= Len(groupIndices) THEN <<>>
    ELSE [k \in 1..Len(groupIndices) |-> i] \o IndicesMap_NbGroups(groupIndices, i + 1)

\* line 114
RECURSIVE IndicesMap(_, _)
IndicesMap(groupIndices, i) ==
    IF i >= Len(groupIndices) THEN <<>>
    ELSE [k \in 1..Len(groupIndices[i + 1]) |-> i] \o IndicesMap(groupIndices, i + 1)

\* lines 92-114: the loop over the groups; the first frame that fails ends it
\* (frames[i] raises IndexError when frames is the shorter list, which the
\* assert of line 62 excludes)
RECURSIVE GroupLoop(_, _, _, _, _)
GroupLoop(i, groupIndices, frames, pos, rigids) ==
    IF i >= Len(groupIndices)
    THEN [raised |-> "", rigids |-> rigids]
    ELSE IF i >= Len(frames)
    THEN [raised |-> "IndexError", rigids |-> rigids]
    ELSE LET selectedPoints == mfilter(groupIndices[i + 1], AllIndices(pos), pos)
             f == Frame(frames[i + 1], selectedPoints)
         IN  IF f.raised # "" THEN [raised |-> f.raised, rigids |-> rigids]
             ELSE GroupLoop(i + 1, groupIndices, frames, pos, Append(rigids, f.rigid))

\* line 116 without the difference
OtherIndexSet_All(allIndices, selectedIndices) == Range(allIndices)

\* line 116: set(allIndices) - set(selectedIndices)
OtherIndexSet(allIndices, selectedIndices) == Range(allIndices) \ Range(selectedIndices)

\* enumerate counting from 1
Enumerate_FromOne(tag, list) == [j \in 1..Len(list) |-> [k |-> list[j], v |-> Some(<<tag, j>>)]]

\* lines 119, 120: the items {v: [tag, k] for k, v in enumerate(list)}
Enumerate(tag, list) == [j \in 1..Len(list) |-> [k |-> list[j], v |-> Some(<<tag, j - 1>>)]]
\* lines 119-120 without line 118: the keys come in the order of the two updates
BuildKd_NoInit(allIndices, others, selectedIndices) ==
    DictUpdate(DictUpdate(<<>>, Enumerate(0, others)), Enumerate(1, selectedIndices))

\* lines 118-120
BuildKd(allIndices, others, selectedIndices) ==
    LET Kd0 == DictUpdate(<<>>, [j \in 1..Len(allIndices) |-> [k |-> allIndices[j], v |-> None]])
        Kd1 == DictUpdate(Kd0, Enumerate(0, others))
    IN  DictUpdate(Kd1, Enumerate(1, selectedIndices))

\* line 121: iterating a None value raises TypeError
RECURSIVE Flatten(_)
Flatten(Kd) ==
    IF Kd = <<>> THEN <<>> ELSE <<The(Head(Kd).v)[1], The(Head(Kd).v)[2]>> \o Flatten(Tail(Kd))
IndexPairs(Kd) ==
    IF \E i \in DOMAIN Kd : Kd[i].v = None
    THEN [raised |-> "TypeError", value |-> <<>>]
    ELSE [raised |-> "", value |-> Flatten(Kd)]

\* lines 125, 132: [allPositions[i] for i in indices]
Gather(allPositions, indices) ==
    IF \E j \in DOMAIN indices : ~ValidIndex(allPositions, indices[j])
    THEN [raised |-> "IndexError", value |-> <<>>]
    ELSE [raised |-> "", value |-> [j \in DOMAIN indices |-> PyGet(allPositions, indices[j])]]

\* line 68: a node without children
NewNode(name) ==
    [name |-> name, DeformableParts |-> None, RigidParts |-> None,
     RigidifiedParticules |-> None, rigidIndexPerPoint |-> None]
---------------------------------------------------------------------------
\* The inputs that are enumerated

Indices(pos) == 0..(Len(pos) - 1)
SeqsUpTo(S, n) == UNION {[1..m -> S] : m \in 0..n}
\* the ways to cut a list of length n into g consecutive groups (empty groups included)
Cuts(n, g) == {c \in [0..g -> 0..n] : c[0] = 0 /\ c[g] = n /\ \A i \in 1..g : c[i - 1] <= c[i]}
Split(sel, c, g) == [i \in 1..g |-> SubSeq(sel, c[i - 1] + 1, c[i])]

\* at most MaxGroups groups holding at most MaxSelected indices together
GroupLists(pos) ==
    {<<>>} \cup
    UNION {{Split(sel, c, g) : c \in Cuts(Len(sel), g)} :
              sel \in SeqsUpTo(Indices(pos), MaxSelected), g \in 1..MaxGroups}

\* one frame of each size the code distinguishes, and one it rejects
FrameSpecs ==
    {<<0, 0, 90>>, <<0, 0, 0, 1>>, <<1, 2, 3, 4, 5>>, <<4, 5, 6, 0, 0, 90>>,
     <<7, 8, 9, 0, 0, 0, 1>>}
FrameLists == SeqsUpTo(FrameSpecs, MaxGroups)

\* frames and frameOrientation: neither, frames alone, or the deprecated alias alone
FrameArgs ==
    {[frames |-> None, frameOrientation |-> None]}
    \cup {[frames |-> Some(f), frameOrientation |-> None] : f \in FrameLists}
    \cup {[frames |-> None, frameOrientation |-> Some(f)] : f \in FrameLists}

\* name is left to its default
Names == {None}

NoArgs == [groupIndices |-> <<>>, frames |-> None, name |-> None, frameOrientation |-> None]

---------------------------------------------------------------------------
Init ==
    /\ positions \in {PointCloud(n) : n \in 0..MaxPoints}
    /\ calls = 0
    /\ args = NoArgs
    /\ raised = ""
    /\ msgs = {}
    /\ otherIndices = <<>>
    /\ initCount = 0
    /\ targetChildren = <<>>
    /\ ero = None
    /\ sourceComponents = AllComponents
    /\ nbMappings = 0
    /\ mapping = None
    /\ couplingParents = 0

\* lines 62-68 onwards: the call got past the assert; sourceObject.init() and
\* targetObject.addChild(name) have run, and `node` is what ero has become
\* when the call ends with `exc`.
Started(name, node, exc) ==
    /\ initCount' = initCount + 1
    /\ targetChildren' = Append(targetChildren, ResolveName(name))
    /\ ero' = Some(node)
    /\ raised' = exc

\* lines 35-154.  setOrder is the order in which the set of line 116 is iterated;
\* attrResolves says whether sourceObject.solver (and the two others) still
\* resolve once the objects have been removed from the node.
Rigidify(groupIndices, frames, name, frameOrientation, setOrder, attrResolves) ==
    LET fr == ResolveFrames(groupIndices, frames, frameOrientation)
        warned == IF frameOrientation # None THEN {"warning"} ELSE {}
        allPositions == positions
        allIndices == AllIndices(positions)
        loop == GroupLoop(0, groupIndices, fr, positions, <<>>)
        selectedIndices == SelectedIndices(groupIndices)
        indicesMap == IndicesMap(groupIndices, 0)
        Kd == BuildKd(allIndices, setOrder, selectedIndices)
        indexPairs == IndexPairs(Kd)
        free == Gather(allPositions, setOrder)
        rigidified == Gather(allPositions, selectedIndices)
        node0 == NewNode(ResolveName(name))
        node1 == [node0 EXCEPT !.DeformableParts = Some(free.value)]
        node2 == [node1 EXCEPT !.RigidParts = Some(loop.rigids)]
        node3 == [node2 EXCEPT !.RigidifiedParticules = Some(rigidified.value),
                               !.rigidIndexPerPoint = Some(indicesMap)]
        sourceKept == UNCHANGED <<sourceComponents, nbMappings, mapping, couplingParents>>
    IN
    /\ calls < MaxCalls
    /\ calls' = calls + 1
    /\ args' = [groupIndices |-> groupIndices, frames |-> frames, name |-> name,
                frameOrientation |-> frameOrientation]
    /\ UNCHANGED positions
    /\ IF ~SizeMatch(groupIndices, fr)
       THEN /\ raised' = "AssertionError"
            /\ msgs' = warned
            /\ otherIndices' = <<>>
            /\ UNCHANGED scene
       ELSE IF loop.raised # ""
       THEN /\ Started(name, node0, loop.raised)
            /\ msgs' = warned \cup (IF loop.raised = "NotImplementedError" THEN {"error"} ELSE {})
            /\ otherIndices' = <<>>
            /\ sourceKept
       ELSE /\ msgs' = warned
            /\ otherIndices' = setOrder
            /\ IF indexPairs.raised # ""
               THEN Started(name, node0, indexPairs.raised) /\ sourceKept
               ELSE IF free.raised # ""
               THEN Started(name, node0, free.raised) /\ sourceKept
               ELSE IF rigidified.raised # ""
               THEN Started(name, node2, rigidified.raised) /\ sourceKept
               ELSE IF sourceComponents = {} /\ ~attrResolves
               THEN Started(name, node3, "AttributeError") /\ sourceKept
               ELSE /\ Started(name, node3, "")
                    /\ sourceComponents' = {}
                    /\ nbMappings' = nbMappings + 1
                    /\ mapping' = Some(indexPairs.value)
                    /\ couplingParents' = couplingParents + 2

\* the first invocation on the source object, with any of the enumerated arguments
First ==
    /\ calls = 0
    /\ \E groupIndices \in GroupLists(positions), fa \in FrameArgs, name \in Names :
         \E setOrder \in
                Orderings(OtherIndexSet(AllIndices(positions), SelectedIndices(groupIndices))) :
             Rigidify(groupIndices, fa.frames, name, fa.frameOrientation, setOrder, TRUE)

\* a later invocation on the same source object, with the arguments of the latest one;
\* an exception ends the script that builds the scene, so there is none after one
Again ==
    /\ calls > 0
    /\ raised = ""
    /\ \E setOrder \in
            Orderings(OtherIndexSet(AllIndices(positions), SelectedIndices(args.groupIndices))),
          attrResolves \in (IF sourceComponents = {} THEN BOOLEAN ELSE {TRUE}) :
         Rigidify(args.groupIndices, args.frames, args.name, args.frameOrientation,
                  setOrder, attrResolves)

Next == First \/ Again

Spec == Init /\ [][Next]_vars

---------------------------------------------------------------------------
\* Vocabulary of the properties

Completed == calls > 0 /\ raised = ""
NbPoints == Len(positions)
Point(i) == positions[i + 1]
GroupSet(g) == {args.groupIndices[g][k] : k \in DOMAIN args.groupIndices[g]}
Claimed == UNION {GroupSet(g) : g \in DOMAIN args.groupIndices}
Flat == Concat(args.groupIndices)
Free == The(The(ero).DeformableParts)
Rigidified == The(The(ero).RigidifiedParticules)
Rigids == The(The(ero).RigidParts)
Owner == The(The(ero).rigidIndexPerPoint)
Tag(i) == The(mapping)[2 * i + 1]
Local(i) == The(mapping)[2 * i + 2]
Occurrences(list, x) == Cardinality({j \in DOMAIN list : list[j] = x})

InRange == \A g \in DOMAIN args.groupIndices : GroupSet(g) \subseteq 0..(NbPoints - 1)
Disjoint ==
    \A g, h \in DOMAIN args.groupIndices : g # h => GroupSet(g) \cap GroupSet(h) = {}
DuplicateFree ==
    \A g \in DOMAIN args.groupIndices : Cardinality(GroupSet(g)) = Len(args.groupIndices[g])

\* the frame specs of a call once the alias and the default are resolved
NbFrameSpecs ==
    IF args.frameOrientation # None THEN Len(The(args.frameOrientation))
    ELSE IF args.frames # None THEN Len(The(args.frames))
    ELSE Len(args.groupIndices)
FrameSpec(g) ==
    IF args.frameOrientation # None THEN The(args.frameOrientation)[g]
    ELSE IF args.frames # None THEN The(args.frames)[g]
    ELSE <<0, 0, 0>>
ArityMismatch == NbFrameSpecs # Len(args.groupIndices)
Supported(g) == Len(FrameSpec(g)) \in {3, 4, 6, 7}

\* number of rigidified slots that the groups before group g fill
RECURSIVE Offset(_)
Offset(g) == IF g <= 1 THEN 0 ELSE Offset(g - 1) + Len(args.groupIndices[g - 1])

\* p is the arithmetic mean of pts (no division: n * p = sum)
RECURSIVE Sum(_, _)
Sum(pts, c) == IF pts = <<>> THEN 0 ELSE Head(pts)[c] + Sum(Tail(pts), c)
IsMean(p, pts) == Len(p) = 3 /\ \A c \in 1..3 : Len(pts) * p[c] = Sum(pts, c)

\* the points of group g, in ascending global index order
RECURSIVE PointsOf(_)
PointsOf(S) ==
    IF S = {} THEN <<>>
    ELSE LET m == CHOOSE x \in S : \A y \in S : x <= y
         IN  <<Point(m)>> \o PointsOf(S \ {m})
SelectedPoints(g) == PointsOf(GroupSet(g) \cap 0..(NbPoints - 1))

---------------------------------------------------------------------------
\* C1 - reconstruction round trip: after Rigidify returned (group indices in
\* range), the i-th index pair (tag, local) of every global index i selects a
\* slot holding the original coordinate of point i: slot local of
\* DeformableParts when tag = 0, slot local of RigidifiedParticules when tag = 1.
C1_RoundTrip ==
    (Completed /\ InRange) =>
        \A i \in 0..(NbPoints - 1) :
            /\ 2 * i + 2 <= Len(The(mapping))
            /\ Tag(i) \in {0, 1}
            /\ Tag(i) = 0 => (Local(i) \in 0..(Len(Free) - 1) /\ Free[Local(i) + 1] = Point(i))
            /\ Tag(i) = 1 =>
                 (Local(i) \in 0..(Len(Rigidified) - 1) /\ Rigidified[Local(i) + 1] = Point(i))

\* a returned call in which pairs of both tags occur, the free ones out of order
C1_Witness ==
    /\ Completed
    /\ \E i, j \in 0..(NbPoints - 1) : Tag(i) = 0 /\ Tag(j) = 1
    /\ \E i, j \in 0..(NbPoints - 1) : i < j /\ Tag(i) = 0 /\ Tag(j) = 0 /\ Local(i) > Local(j)

C3_Partition ==
    (Completed /\ InRange /\ Disjoint /\ DuplicateFree) =>
        /\ \A i \in 0..(NbPoints - 1) :
              Occurrences(otherIndices, i) + Occurrences(Flat, i) = 1
        /\ Len(otherIndices) + Len(Flat) = NbPoints

\* a returned call with two non-empty disjoint groups and a free index left
C3_Witness ==
    /\ Completed /\ InRange /\ Disjoint /\ DuplicateFree
    /\ Len(args.groupIndices) = 2
    /\ \A g \in DOMAIN args.groupIndices : args.groupIndices[g] # <<>>
    /\ otherIndices # <<>>

\* C5 - rigidified container order and ownership: RigidifiedParticules holds
\* the selected points in group-declaration order and, inside a group, in the
\* order the caller gave; rigidIndexPerPoint has the same length and names, for
\* each slot, the ordinal of the group that supplied it; RigidParts holds one
\* frame per group.
C5_RigidifiedOrder ==
    (Completed /\ InRange) =>
        /\ Len(Rigidified) = Len(Flat)
        /\ Len(Owner) = Len(Rigidified)
        /\ Len(Rigids) = Len(args.groupIndices)
        /\ \A g \in DOMAIN args.groupIndices :
              \A k \in DOMAIN args.groupIndices[g] :
                  /\ Rigidified[Offset(g) + k] = Point(args.groupIndices[g][k])
                  /\ Owner[Offset(g) + k] = g - 1

\* a returned call whose rigid index list, two groups or one, is in descending order
C5_Witness ==
    /\ Completed
    /\ Len(Flat) > 1
    /\ \A a, b \in DOMAIN Flat : a < b => Flat[a] > Flat[b]
    /\ otherIndices # <<>>

---------------------------------------------------------------------------
\* C7 - arity mismatch is fatal and has no effect: a call whose number of frame
\* specs (alias and default resolved) differs from its number of groups raises
\* and leaves the scene as it was: no init of the source, no child of the
\* target, no container, no mapping, the solver components kept.
C7_ArityMismatchNoEffect ==
    [][(calls' = calls + 1 /\ ArityMismatch')
          => (raised' = "AssertionError" /\ UNCHANGED scene)]_vars

\* a call whose mismatching frame list came through the deprecated alias
C7_Witness ==
    /\ calls > 0 /\ ArityMismatch /\ raised = "AssertionError"
    /\ args.frameOrientation # None
    /\ initCount = 0 /\ targetChildren = <<>> /\ sourceComponents = AllComponents

---------------------------------------------------------------------------
\* C4 - free indices ascending: the free index list is the unclaimed global
\* indices sorted ascending, and the k-th entry of DeformableParts is the point
\* of the k-th smallest unclaimed index.
C4_FreeAscending ==
    Completed =>
        /\ Range(otherIndices) = (0..(NbPoints - 1)) \ Claimed
        /\ \A a, b \in DOMAIN otherIndices : a < b => otherIndices[a] < otherIndices[b]
        /\ \A k \in DOMAIN otherIndices : Free[k] = Point(otherIndices[k])

\* C6 - barycenter position: for a 3- or 4-scalar frame spec (the default
\* [0,0,0] included) the position of the group's rigid frame is the arithmetic
\* mean of the group's selected points; for a 6- or 7-scalar spec it is the
\* first three scalars.
C6_Barycenter ==
    (/\ calls > 0 /\ ~ArityMismatch /\ InRange
     /\ \A g \in DOMAIN args.groupIndices : Supported(g) /\ args.groupIndices[g] # <<>>)
    => /\ ero # None /\ The(ero).RigidParts # None
       /\ Len(Rigids) = Len(args.groupIndices)
       /\ \A g \in DOMAIN args.groupIndices :
             IF Len(FrameSpec(g)) \in {3, 4}
             THEN IsMean(Rigids[g].position, SelectedPoints(g))
             ELSE Rigids[g].position = SubSeq(FrameSpec(g), 1, 3)

\* C8 - frame format error leaves no partial result: a call with a frame spec
\* of another size than 3, 4, 6 or 7 raises, the target has no new child, no
\* container and no mapping exists, and the source keeps its solver components.
C8_FrameFormatNoPartial ==
    (calls > 0 /\ ~ArityMismatch /\ \E g \in DOMAIN args.groupIndices : ~Supported(g))
    => /\ raised # ""
       /\ targetChildren = <<>>
       /\ ero = None
       /\ mapping = None /\ nbMappings = 0
       /\ sourceComponents = AllComponents

\* C9 - exactly-once invocation: a call on a source object that a former call
\* has rigidified raises an already-rigidified error and changes nothing in the
\* scene.
C9_SecondCallRejected ==
    [][(nbMappings > 0 /\ calls' = calls + 1)
          => (raised' = "AlreadyRigidifiedError" /\ UNCHANGED scene)]_vars

\* C10 - overlapping groups are rejected: a call (frames given with their
\* position, indices in range) in which two groups share a global index raises
\* an overlapping-group error and produces no mapping, in place of a result
\* that stores the index twice.
C10_OverlapRejected ==
    (/\ calls > 0 /\ ~ArityMismatch /\ InRange /\ ~Disjoint
     /\ \A g \in DOMAIN args.groupIndices : Len(FrameSpec(g)) \in {6, 7})
    => /\ raised = "OverlappingGroupError"
       /\ mapping = None

====
